---- MODULE Spec2Model ----
(***************************************************************************)
(* OAuthTokenCache: TokenClient (src/oauth_token_cache/token_client.py).   *)
(*                                                                         *)
(* Two TokenClient instances share one redis store and one token endpoint. *)
(* Every blocking call of a method (the POST to the token endpoint, the    *)
(* EXEC of the pipeline, the HGETALL) is one step, so that the calls of    *)
(* the two clients interleave at exactly the places where the code waits   *)
(* for a collaborator.  Strings are sequences of one-character strings, so *)
(* that the key format and the decimal codec of expires_in are computed    *)
(* character by character.                                                 *)
(***************************************************************************)
EXTENDS Integers, Sequences, FiniteSets, TLC

VARIABLES
    config,      \* client -> [client_id, audience]        (__init__)
    pc,          \* client -> where its current call stands
    op,          \* client -> the method it is running
    resp,        \* client -> the token endpoint's response to fresh_token
    pipeline,    \* client -> commands buffered in its redis pipeline
    arg,         \* client -> the token handed to cache_token
    result,      \* client -> what the call returned or raised
    store,       \* redis: key -> [fields, expireAt]
    now,         \* redis server clock, in seconds
    failed,      \* client -> a redis command of the current call raised
    lastWrite,   \* key -> when the lifetime of the last token committed ends
    justCached,  \* the cache_token commit that nothing has followed yet
    after,       \* client -> the commit of its own that its call followed at once
    writes,      \* client -> pipeline batches committed by the current call
    requests,    \* client -> token endpoint requests sent by the current call
    keyIn,       \* two (client_id, audience) pairs handed to cache_key
    keyOut       \* the two cache keys computed from keyIn

vars == <<config, pc, op, resp, pipeline, arg, result, store, now, failed,
          lastWrite, justCached, after, writes, requests, keyIn, keyOut>>

mainVars == <<config, pc, op, resp, pipeline, arg, result, store, now, failed,
              lastWrite, justCached, after, writes, requests>>

keyVars == <<keyIn, keyOut>>

-----------------------------------------------------------------------------
(* Bounds *)

\* largest short token lifetime, in seconds
MaxExpires == 1

\* the redis clock runs from 0 to MaxTime
MaxTime == 1

\* longest client_id / audience handed to cache_key in SpecKey
MaxStrLen == 2

-----------------------------------------------------------------------------
(* Strings *)

Digits == <<"0", "1", "2", "3", "4", "5", "6", "7", "8", "9">>

DigitChars == {Digits[i] : i \in 1..10}

DigitValue(ch) == (CHOOSE i \in 1..10 : Digits[i] = ch) - 1

\* str(n) for n >= 0: the decimal representation
RECURSIVE IntToStr(_)
IntToStr(n) ==
    IF n < 10 THEN <<Digits[n + 1]>>
    ELSE IntToStr(n \div 10) \o <<Digits[(n % 10) + 1]>>

IsDecimal(s) == Len(s) > 0 /\ \A i \in 1..Len(s) : s[i] \in DigitChars

\* int(s) that reads the last digit only
StrToIntLastDigit(s) ==
    IF Len(s) = 0 THEN 0 ELSE DigitValue(s[Len(s)])

\* int(s) for a string of decimal digits
RECURSIVE StrToInt(_)
StrToInt(s) ==
    IF Len(s) = 0 THEN 0
    ELSE 10 * StrToInt(SubSeq(s, 1, Len(s) - 1)) + DigitValue(s[Len(s)])


-----------------------------------------------------------------------------
(* Token: the value object of oauth_token_cache/token.py *)

FieldNames == {"access_token", "expires_in", "token_type", "audience"}

\* a JSON value of the response: a number or a string
JsonInt(n) == [num |-> TRUE, n |-> n, s |-> <<>>]

JsonStr(s) == [num |-> FALSE, n |-> 0, s |-> s]

\* int(x) of Token's constructor: whether it succeeds, and its value
IntConvertible(v) == v.num \/ IsDecimal(v.s)

ToInt(v) == IF v.num THEN v.n ELSE StrToInt(v.s)

\* Token(access_token, expires_in, token_type, audience)
Token(access_token, expires_in, token_type, audience) ==
    [access_token |-> access_token, expires_in |-> ToInt(expires_in),
     token_type |-> token_type, audience |-> audience]

NullToken ==
    [access_token |-> <<>>, expires_in |-> 0, token_type |-> <<>>, audience |-> <<>>]

\* Token.asdict(): the four fields as strings
asdict(token) ==
    [access_token |-> token.access_token,
     expires_in |-> IntToStr(token.expires_in),
     token_type |-> token.token_type,
     audience |-> token.audience]

-----------------------------------------------------------------------------
(* Results of a call *)

Pending == [kind |-> "pending", token |-> NullToken, error |-> "none"]

Returned(token) == [kind |-> "token", token |-> token, error |-> "none"]

ReturnedNone == [kind |-> "none", token |-> NullToken, error |-> "none"]

Raised(error) == [kind |-> "error", token |-> NullToken, error |-> error]

-----------------------------------------------------------------------------
(* TokenClient.cache_key *)

Prefix ==
    <<"o", "a", "u", "t", "h", "_", "t", "o", "k", "e", "n", "_",
      "c", "a", "c", "h", "e", "_", "_">>

\* the format string without the separator between the two values
cache_keyNoSeparator(client_id, audience) == Prefix \o client_id \o audience

\* "oauth_token_cache__{client_id}_{audience}".format(...)
cache_key(client_id, audience) == Prefix \o client_id \o <<"_">> \o audience

\* a cache key kept from the first client configured
KeyOfFirstClient(cfg) == cache_key(<<"a">>, <<"b">>)

KeyOf(cfg) == cache_key(cfg.client_id, cfg.audience)

-----------------------------------------------------------------------------
(* Configurations of the two clients *)

Clients == {"c1", "c2"}

Config(client_id, audience) == [client_id |-> client_id, audience |-> audience]

\* the same configuration twice, or two audiences
SameConfig ==
    [c \in Clients |-> Config(<<"a">>, <<"b">>)]

DistinctConfig ==
    [c \in Clients |->
        IF c = "c1" THEN Config(<<"a">>, <<"b">>) ELSE Config(<<"a">>, <<"c">>)]

\* two pairs that differ, with underscores in the values
UnderscoreConfig ==
    [c \in Clients |->
        IF c = "c1" THEN Config(<<"a", "_">>, <<"b">>)
        ELSE Config(<<"a">>, <<"_", "b">>)]

ConfigChoices == {SameConfig, DistinctConfig}

\* configurations of two clients that are not the same
DifferentConfigs == {DistinctConfig, UnderscoreConfig}

AllKeys ==
    {KeyOf(cc[c]) : cc \in ConfigChoices \cup DifferentConfigs, c \in Clients}

-----------------------------------------------------------------------------
(* redis: hashes with an expiry *)

EmptyMap == [f \in {} |-> <<>>]

\* a key: its hash fields, whether it has an expiry, and the expiry time
Absent == [fields |-> EmptyMap, volatile |-> FALSE, expireAt |-> 0]

Command(cmd, key, map, seconds) ==
    [cmd |-> cmd, key |-> key, map |-> map, seconds |-> seconds]

\* HMSET key field value [field value ...]: sets the fields, keeps the expiry
HMSet(entry, map) ==
    [entry EXCEPT !.fields =
        [f \in (DOMAIN entry.fields) \cup (DOMAIN map) |->
            IF f \in DOMAIN map THEN map[f] ELSE entry.fields[f]]]

\* EXPIRE that adds the seconds to an expiry already set
ExpireExtend(entry, seconds, t) ==
    IF DOMAIN entry.fields = {} THEN entry
    ELSE IF seconds <= 0 THEN Absent
    ELSE [entry EXCEPT !.volatile = TRUE,
                       !.expireAt = (IF entry.volatile THEN @ ELSE t) + seconds]

\* EXPIRE that leaves an expiry already set alone
ExpireIfNone(entry, seconds, t) ==
    IF DOMAIN entry.fields = {} \/ entry.volatile THEN entry
    ELSE IF seconds <= 0 THEN Absent
    ELSE [entry EXCEPT !.volatile = TRUE, !.expireAt = t + seconds]

\* EXPIRE key seconds, at server time t: a missing key stays missing, a
\* timeout that is not positive deletes the key
Expire(entry, seconds, t) ==
    IF DOMAIN entry.fields = {} THEN entry
    ELSE IF seconds <= 0 THEN Absent
    ELSE [entry EXCEPT !.volatile = TRUE, !.expireAt = t + seconds]

ApplyCommand(st, c, t) ==
    CASE c.cmd = "HMSET" -> [st EXCEPT ![c.key] = HMSet(st[c.key], c.map)]
      [] c.cmd = "EXPIRE" -> [st EXCEPT ![c.key] = Expire(st[c.key], c.seconds, t)]
      [] OTHER -> st

\* a batch cut short after its first command
ExecuteFirstOnly(st, cmds, t) ==
    IF Len(cmds) = 0 THEN st ELSE ApplyCommand(st, Head(cmds), t)

\* the commands of one round trip run in order, nothing in between
\* (pipeline() is transactional: MULTI ... EXEC)
RECURSIVE Execute(_, _, _)
Execute(st, cmds, t) ==
    IF Len(cmds) = 0 THEN st
    ELSE Execute(ApplyCommand(st, Head(cmds), t), Tail(cmds), t)

\* HGETALL key: the fields, {} for a missing key
HGetAll(st, key) == st[key].fields

Exists(st, key) == DOMAIN st[key].fields # {}

\* remaining seconds of a key that has an expiry
Remaining(st, key, t) == st[key].expireAt - t

\* keys whose expiry time has come are gone
ExpireKeys(st, t) ==
    [k \in DOMAIN st |->
        IF st[k].volatile /\ st[k].expireAt <= t THEN Absent ELSE st[k]]

-----------------------------------------------------------------------------
(* The token endpoint *)

Bearer == <<"B", "e", "a", "r", "e", "r">>

\* every grant carries a new access token: one per requesting client
AccessTokenFor(c) == IF c = "c1" THEN <<"a", "b", "c">> ELSE <<"x", "y", "z">>

\* lifetimes the endpoint grants: short ones that run out within MaxTime,
\* and one hour
ExpiresIn == (0..MaxExpires) \cup {3600}

ResponseFields == {"access_token", "expires_in", "token_type"}

Response(status, json, has, access_token, expires_in, token_type) ==
    [status |-> status, json |-> json, has |-> has,
     access_token |-> access_token, expires_in |-> expires_in,
     token_type |-> token_type]

NoResponse == Response(0, FALSE, {}, <<>>, JsonInt(0), <<>>)

\* bodies: a full grant, a grant whose expires_in is no number, a JSON
\* object that lacks one field, and a body that is not JSON
NotJson == Response(0, FALSE, {}, <<>>, JsonInt(0), <<>>)

Grants(c) ==
    {Response(0, TRUE, ResponseFields, AccessTokenFor(c), JsonInt(e), Bearer) :
        e \in ExpiresIn}

Bodies(c) ==
    Grants(c)
    \cup {Response(0, TRUE, ResponseFields, AccessTokenFor(c),
                   JsonStr(<<"s", "o", "o", "n">>), Bearer)}
    \cup {Response(0, TRUE, ResponseFields \ {f}, AccessTokenFor(c),
                   JsonInt(1), Bearer) : f \in ResponseFields}
    \cup {NotJson}

\* 200 with every body; a redirect and a refusal, each with a grant of one
\* hour or with text
Responses(c) ==
    {[b EXCEPT !.status = 200] : b \in Bodies(c)}
    \cup {[b EXCEPT !.status = s] :
            b \in {g \in Grants(c) : g.expires_in.n = 3600} \cup {NotJson},
            s \in {302, 401}}

-----------------------------------------------------------------------------
(* TokenClient *)

\* response.raise_for_status(): HTTPError for 4xx and 5xx
RaisesForStatus(status) == 400 <= status /\ status < 600

\* fresh_token that hands the token type over as the audience
FreshTokenOutcomeWrongAudience(response, audience) ==
    IF RaisesForStatus(response.status) THEN Raised("HTTPError")
    ELSE IF ~response.json THEN Raised("JSONDecodeError")
    ELSE IF ResponseFields \ response.has # {} THEN Raised("KeyError")
    ELSE IF ~IntConvertible(response.expires_in) THEN Raised("ValueError")
    ELSE Returned(Token(response.access_token, response.expires_in,
                        response.token_type, response.token_type))

\* fresh_token that reads the body with defaults for what is missing
FreshTokenOutcomeLenient(response, audience) ==
    IF RaisesForStatus(response.status) THEN Raised("HTTPError")
    ELSE IF ~IntConvertible(response.expires_in) THEN Raised("ValueError")
    ELSE Returned(Token(response.access_token, response.expires_in,
                        response.token_type, audience))

\* fresh_token from the response on: raise_for_status(), json(), the three
\* subscripts, Token(...)
FreshTokenOutcome(response, audience) ==
    IF RaisesForStatus(response.status) THEN Raised("HTTPError")
    ELSE IF ~response.json THEN Raised("JSONDecodeError")
    ELSE IF ResponseFields \ response.has # {} THEN Raised("KeyError")
    ELSE IF ~IntConvertible(response.expires_in) THEN Raised("ValueError")
    ELSE Returned(Token(response.access_token, response.expires_in,
                        response.token_type, audience))

\* cache_token with an expiry one second too long
CacheTokenCommandsLonger(key, token) ==
    <<Command("HMSET", key, asdict(token), 0),
      Command("EXPIRE", key, EmptyMap, token.expires_in + 1)>>

\* cache_token: the commands buffered in the pipeline
CacheTokenCommands(key, token) ==
    <<Command("HMSET", key, asdict(token), 0),
      Command("EXPIRE", key, EmptyMap, token.expires_in)>>

\* cached_token that renews the expiry of the key it reads
CachedTokenCommandsTouch(key) ==
    <<Command("HGETALL", key, EmptyMap, 0),
      Command("EXPIRE", key, EmptyMap, 3600)>>

\* cached_token: the command sent
CachedTokenCommands(key) == <<Command("HGETALL", key, EmptyMap, 0)>>

\* cached_token with token_type and audience in each other's place
CachedTokenResultSwapped(values) ==
    IF DOMAIN values = {} THEN ReturnedNone
    ELSE IF FieldNames \ DOMAIN values # {} THEN Raised("KeyError")
    ELSE IF ~IsDecimal(values["expires_in"]) THEN Raised("ValueError")
    ELSE Returned(Token(values["access_token"],
                        JsonInt(StrToInt(values["expires_in"])),
                        values["audience"], values["token_type"]))

\* cached_token without the test for an empty reply
CachedTokenResultNoMissCheck(values) ==
    IF FieldNames \ DOMAIN values # {} THEN Raised("KeyError")
    ELSE IF ~IsDecimal(values["expires_in"]) THEN Raised("ValueError")
    ELSE Returned(Token(values["access_token"],
                        JsonInt(StrToInt(values["expires_in"])),
                        values["token_type"], values["audience"]))

\* cached_token from the reply of hgetall on
CachedTokenResult(values) ==
    IF DOMAIN values = {} THEN ReturnedNone
    ELSE IF FieldNames \ DOMAIN values # {} THEN Raised("KeyError")
    ELSE IF ~IsDecimal(values["expires_in"]) THEN Raised("ValueError")
    ELSE Returned(Token(values["access_token"],
                        JsonInt(StrToInt(values["expires_in"])),
                        values["token_type"], values["audience"]))

\* cache_token that does not hand its argument back
CacheTokenReturnNothing(token) == ReturnedNone

\* line 103: cache_token returns its argument
CacheTokenReturn(token) == Returned(token)

\* an execute() wrapped so that the token is returned although it failed
CacheTokenRaisesSwallowed(error, token) == Returned(token)

\* line 101 stands in no try block: the error of execute() leaves cache_token,
\* and fresh_token with it (line 65), before line 103 is reached
CacheTokenRaises(error, token) == Raised(error)

\* an hgetall wrapped so that its failure becomes a cache miss
CachedTokenRaisesSwallowed(error) == ReturnedNone

\* line 75 stands in no try block: the error of hgetall leaves cached_token
CachedTokenRaises(error) == Raised(error)

-----------------------------------------------------------------------------
(* State *)

NoWrite == [written |-> FALSE, deadline |-> 0]

NoCommit == [client |-> "nobody", token |-> NullToken]

\* tokens a caller hands to cache_token
ArgTokens ==
    {Token(<<"d", "e", "f">>, JsonInt(e), Bearer, <<"z">>) : e \in ExpiresIn}

Strings == UNION {[1..n -> {"a", "_"}] : n \in 1..MaxStrLen}

KeyInputs == [client_id : Strings, audience : Strings]

NoKeys == <<>>

InitMain ==
    /\ pc = [c \in Clients |-> "idle"]
    /\ op = [c \in Clients |-> "none"]
    /\ resp = [c \in Clients |-> NoResponse]
    /\ pipeline = [c \in Clients |-> <<>>]
    /\ arg = [c \in Clients |-> NullToken]
    /\ result = [c \in Clients |-> Pending]
    /\ store = [k \in AllKeys |-> Absent]
    /\ now = 0
    /\ failed = [c \in Clients |-> FALSE]
    /\ lastWrite = [k \in AllKeys |-> NoWrite]
    /\ justCached = NoCommit
    /\ after = [c \in Clients |-> NoCommit]
    /\ writes = [c \in Clients |-> 0]
    /\ requests = [c \in Clients |-> 0]

Init ==
    /\ config \in ConfigChoices
    /\ InitMain
    /\ keyIn = <<Config(<<"a">>, <<"b">>), Config(<<"a">>, <<"b">>)>>
    /\ keyOut = NoKeys

-----------------------------------------------------------------------------
(* fresh_token *)

\* lines 45-54: the request is sent
FreshTokenCall(c) ==
    /\ pc[c] = "idle"
    /\ pc' = [pc EXCEPT ![c] = "posting"]
    /\ op' = [op EXCEPT ![c] = "fresh_token"]
    /\ requests' = [requests EXCEPT ![c] = 1]
    /\ writes' = [writes EXCEPT ![c] = 0]
    /\ justCached' = NoCommit
    /\ UNCHANGED <<config, resp, pipeline, arg, result, store, now, failed,
                   lastWrite, after, keyVars>>

\* requests.post raises: no response came
FreshTokenNoResponse(c) ==
    /\ pc[c] = "posting"
    /\ \E e \in {"Timeout", "ConnectionError"} :
          result' = [result EXCEPT ![c] = Raised(e)]
    /\ pc' = [pc EXCEPT ![c] = "done"]
    /\ justCached' = NoCommit
    /\ UNCHANGED <<config, op, resp, pipeline, arg, store, now, failed,
                   lastWrite, after, writes, requests, keyVars>>

\* lines 55-63 and 97-100: the response is checked and parsed, the Token
\* built and the pipeline filled; or the error leaves fresh_token
FreshTokenResponse(c) ==
    /\ pc[c] = "posting"
    /\ \E r \in Responses(c) :
          LET o == FreshTokenOutcome(r, config[c].audience) IN
          /\ resp' = [resp EXCEPT ![c] = r]
          /\ IF o.kind = "error"
             THEN /\ result' = [result EXCEPT ![c] = o]
                  /\ pc' = [pc EXCEPT ![c] = "done"]
                  /\ UNCHANGED <<arg, pipeline>>
             ELSE /\ arg' = [arg EXCEPT ![c] = o.token]
                  /\ pipeline' = [pipeline EXCEPT ![c] =
                        CacheTokenCommands(KeyOf(config[c]), o.token)]
                  /\ pc' = [pc EXCEPT ![c] = "execute"]
                  /\ UNCHANGED result
    /\ justCached' = NoCommit
    /\ UNCHANGED <<config, op, store, now, failed, lastWrite, after, writes,
                   requests, keyVars>>

-----------------------------------------------------------------------------
(* cache_token *)

\* lines 97-100, called by the user: the pipeline is filled
CacheTokenCall(c) ==
    /\ pc[c] = "idle"
    /\ \E t \in ArgTokens :
          /\ arg' = [arg EXCEPT ![c] = t]
          /\ pipeline' = [pipeline EXCEPT ![c] =
                CacheTokenCommands(KeyOf(config[c]), t)]
          /\ justCached' = IF justCached = [client |-> c, token |-> t]
                           THEN justCached ELSE NoCommit
    /\ pc' = [pc EXCEPT ![c] = "execute"]
    /\ op' = [op EXCEPT ![c] = "cache_token"]
    /\ requests' = [requests EXCEPT ![c] = 0]
    /\ writes' = [writes EXCEPT ![c] = 0]
    /\ UNCHANGED <<config, resp, result, store, now, failed, lastWrite, after,
                   keyVars>>

\* lines 101-103: pipeline.execute() commits the batch, the token is returned
PipelineExecute(c) ==
    /\ pc[c] = "execute"
    /\ store' = Execute(store, pipeline[c], now)
    /\ result' = [result EXCEPT ![c] = CacheTokenReturn(arg[c])]
    /\ pc' = [pc EXCEPT ![c] = "done"]
    /\ writes' = [writes EXCEPT ![c] = @ + 1]
    /\ lastWrite' = [lastWrite EXCEPT ![KeyOf(config[c])] =
          [written |-> TRUE, deadline |-> now + arg[c].expires_in]]
    /\ after' = [after EXCEPT ![c] =
          IF justCached = [client |-> c, token |-> arg[c]]
          THEN justCached ELSE NoCommit]
    /\ justCached' = [client |-> c, token |-> arg[c]]
    /\ UNCHANGED <<config, op, resp, pipeline, arg, now, failed, requests,
                   keyVars>>

\* line 101: pipeline.execute() raises, redis does not answer
PipelineExecuteFails(c) ==
    /\ pc[c] = "execute"
    /\ failed' = [failed EXCEPT ![c] = TRUE]
    /\ result' = [result EXCEPT ![c] = CacheTokenRaises("RedisError", arg[c])]
    /\ pc' = [pc EXCEPT ![c] = "done"]
    /\ justCached' = NoCommit
    /\ UNCHANGED <<config, op, resp, pipeline, arg, store, now,
                   lastWrite, after, writes, requests, keyVars>>

-----------------------------------------------------------------------------
(* cached_token *)

\* lines 75-85
CachedTokenCall(c) ==
    /\ pc[c] = "idle"
    /\ store' = Execute(store, CachedTokenCommands(KeyOf(config[c])), now)
    /\ result' = [result EXCEPT ![c] =
          CachedTokenResult(HGetAll(store, KeyOf(config[c])))]
    /\ pc' = [pc EXCEPT ![c] = "done"]
    /\ op' = [op EXCEPT ![c] = "cached_token"]
    /\ requests' = [requests EXCEPT ![c] = 0]
    /\ writes' = [writes EXCEPT ![c] = 0]
    /\ after' = [after EXCEPT ![c] =
          IF justCached.client = c THEN justCached ELSE NoCommit]
    /\ justCached' = NoCommit
    /\ UNCHANGED <<config, resp, pipeline, arg, now, failed, lastWrite,
                   keyVars>>

\* line 75: hgetall raises, redis does not answer
CachedTokenFails(c) ==
    /\ pc[c] = "idle"
    /\ failed' = [failed EXCEPT ![c] = TRUE]
    /\ result' = [result EXCEPT ![c] = CachedTokenRaises("RedisError")]
    /\ pc' = [pc EXCEPT ![c] = "done"]
    /\ op' = [op EXCEPT ![c] = "cached_token"]
    /\ requests' = [requests EXCEPT ![c] = 0]
    /\ writes' = [writes EXCEPT ![c] = 0]
    /\ justCached' = NoCommit
    /\ UNCHANGED <<config, resp, pipeline, arg, store, now, lastWrite,
                   after, keyVars>>

-----------------------------------------------------------------------------
(* The caller and the environment *)

\* the caller has the result; the client is ready for its next call
Return(c) ==
    /\ pc[c] = "done"
    /\ pc' = [pc EXCEPT ![c] = "idle"]
    /\ op' = [op EXCEPT ![c] = "none"]
    /\ resp' = [resp EXCEPT ![c] = NoResponse]
    /\ pipeline' = [pipeline EXCEPT ![c] = <<>>]
    /\ arg' = [arg EXCEPT ![c] = NullToken]
    /\ result' = [result EXCEPT ![c] = Pending]
    /\ after' = [after EXCEPT ![c] = NoCommit]
    /\ writes' = [writes EXCEPT ![c] = 0]
    /\ requests' = [requests EXCEPT ![c] = 0]
    /\ failed' = [failed EXCEPT ![c] = FALSE]
    /\ UNCHANGED <<config, store, now, lastWrite, justCached, keyVars>>

\* one second passes on the redis server
Tick ==
    /\ now < MaxTime
    /\ now' = now + 1
    /\ store' = ExpireKeys(store, now + 1)
    /\ justCached' = NoCommit
    /\ UNCHANGED <<config, pc, op, resp, pipeline, arg, result, failed,
                   lastWrite, after, writes, requests, keyVars>>

Next ==
    \/ \E c \in Clients :
          \/ FreshTokenCall(c)
          \/ FreshTokenNoResponse(c)
          \/ FreshTokenResponse(c)
          \/ CacheTokenCall(c)
          \/ PipelineExecute(c)
          \/ PipelineExecuteFails(c)
          \/ CachedTokenCall(c)
          \/ CachedTokenFails(c)
          \/ Return(c)
    \/ Tick

Spec == Init /\ [][Next]_vars

\* the two clients are configured differently
InitFrame ==
    /\ config \in DifferentConfigs
    /\ InitMain
    /\ keyIn = <<Config(<<"a">>, <<"b">>), Config(<<"a">>, <<"b">>)>>
    /\ keyOut = NoKeys

SpecFrame == InitFrame /\ [][Next]_vars

-----------------------------------------------------------------------------
(* cache_key as a function: two clients are configured and their keys read *)

InitKey ==
    /\ config = SameConfig
    /\ InitMain
    /\ keyIn \in KeyInputs \X KeyInputs
    /\ keyOut = NoKeys

\* the cache_key property of both clients is read
ReadCacheKeys ==
    /\ keyOut = NoKeys
    /\ keyOut' = <<KeyOf(keyIn[1]), KeyOf(keyIn[2])>>
    /\ UNCHANGED <<mainVars, keyIn>>

NextKey == ReadCacheKeys

SpecKey == InitKey /\ [][NextKey]_vars

-----------------------------------------------------------------------------
(* Properties *)

\* the redis entry of token t committed at time t0
EntryOf(token, t0) ==
    [fields |-> asdict(token), volatile |-> TRUE,
     expireAt |-> t0 + token.expires_in]

DoneWith(c, method) == pc[c] = "done" /\ op[c] = method

\* C1 as stated: cached_token() right after cache_token(t) by the same client
\* returns a Token equal to t, for every expires_in >= 0.
C1_RoundTripAnyLifetime ==
    \A c \in Clients :
        (DoneWith(c, "cached_token") /\ after[c] # NoCommit)
            => result[c] = Returned(after[c].token)

\* C1 amended: cached_token() right after cache_token(t) by the same client
\* returns a Token equal to t in all four fields when t.expires_in >= 1, and
\* the no-token result when t.expires_in = 0.
C1_RoundTrip ==
    \A c \in Clients :
        (DoneWith(c, "cached_token") /\ after[c] # NoCommit)
            => result[c] = IF after[c].token.expires_in >= 1
                           THEN Returned(after[c].token)
                           ELSE ReturnedNone

C1_Witness ==
    \E c \in Clients :
        /\ DoneWith(c, "cached_token")
        /\ after[c] # NoCommit
        /\ after[c].token.expires_in = 3600
        /\ result[c].kind = "token"

\* C2: after cache_token(t) committed and with no later write to the key,
\* the key has a TTL of exactly t.expires_in counted from the commit:
\* cached_token() finds a Token strictly before that time has elapsed and
\* no token once it has.
C2_ExactTTL ==
    \A k \in AllKeys :
        lastWrite[k].written =>
            /\ CachedTokenResult(HGetAll(store, k)).kind = "token"
                  <=> now < lastWrite[k].deadline
            /\ Exists(store, k) =>
                  /\ store[k].volatile
                  /\ Remaining(store, k, now) = lastWrite[k].deadline - now

C2_Witness ==
    \E c \in Clients :
        /\ DoneWith(c, "cached_token")
        /\ result[c] = ReturnedNone
        /\ lastWrite[KeyOf(config[c])].written
        /\ lastWrite[KeyOf(config[c])].deadline >= 1
        /\ now >= lastWrite[KeyOf(config[c])].deadline

Success(status) == 200 <= status /\ status < 300

IsGrant(r) ==
    /\ Success(r.status)
    /\ r.json
    /\ r.has = ResponseFields
    /\ r.expires_in.num

GrantedToken(c) ==
    [access_token |-> resp[c].access_token, expires_in |-> resp[c].expires_in.n,
     token_type |-> resp[c].token_type, audience |-> config[c].audience]

\* both clients have the same configuration and have run fresh_token to its
\* end on a success response with a grant, redis answering
BothFresh ==
    /\ config["c1"] = config["c2"]
    /\ \A c \in Clients :
          /\ DoneWith(c, "fresh_token")
          /\ ~failed[c]
          /\ IsGrant(resp[c])

\* C3 as stated: after two fresh_token calls on one key both have returned
\* their own token, and the entry is the token committed last, as a whole,
\* with that token's expires_in as TTL.
C3_LastWriteWinsAnyLifetime ==
    BothFresh =>
        /\ \A c \in Clients : result[c] = Returned(GrantedToken(c))
        /\ justCached # NoCommit =>
              /\ justCached.token = result[justCached.client].token
              /\ store[KeyOf(config["c1"])] = EntryOf(justCached.token, now)

\* C3 amended: after two fresh_token calls on one key both have returned
\* their own token, and right after the last commit the entry is the token
\* committed last, as a whole, with that token's expires_in as TTL, when
\* that expires_in is >= 1; when it is 0 the key is absent.  At any time an
\* entry that exists holds the four fields of one of the two tokens.
C3_LastWriteWins ==
    BothFresh =>
        /\ \A c \in Clients : result[c] = Returned(GrantedToken(c))
        /\ justCached # NoCommit =>
              /\ justCached.token = result[justCached.client].token
              /\ store[KeyOf(config["c1"])] =
                    IF justCached.token.expires_in >= 1
                    THEN EntryOf(justCached.token, now)
                    ELSE Absent
        /\ Exists(store, KeyOf(config["c1"])) =>
              \E c \in Clients :
                  /\ store[KeyOf(config["c1"])].fields = asdict(result[c].token)
                  /\ store[KeyOf(config["c1"])].volatile

C3_Witness ==
    /\ BothFresh
    /\ justCached # NoCommit
    /\ result["c1"].token.expires_in = 1
    /\ result["c2"].token.expires_in = 3600
    /\ store[KeyOf(config["c1"])] = EntryOf(justCached.token, now)

\* C4: in every state a key is absent or holds all four fields and has an
\* expiry, also while a cache_token is under way and after one failed.
C4_FieldsAndExpiryTogether ==
    \A k \in AllKeys :
        Exists(store, k) =>
            /\ DOMAIN store[k].fields = FieldNames
            /\ store[k].volatile
            /\ store[k].expireAt > now

C4_Witness ==
    \E c, d \in Clients :
        /\ c # d
        /\ pc[c] = "execute"
        /\ Exists(store, KeyOf(config[c]))
        /\ pc[d] = "done"
        /\ failed[d]
        /\ op[d] # "cached_token"

\* C5: a response with a non-success status makes fresh_token raise the
\* HTTP error, with no Token returned and no cache write.
C5_NonSuccessRaises ==
    \A c \in Clients :
        (/\ DoneWith(c, "fresh_token")
         /\ resp[c] # NoResponse
         /\ ~Success(resp[c].status))
            => /\ result[c] = Raised("HTTPError")
               /\ writes[c] = 0

\* C6 as stated: on a grant fresh_token returns the Token of the three
\* response values and the configured audience, and the entry at the
\* client's key is that token with the response's expires_in as TTL.
C6_FreshTokenCachedAnyLifetime ==
    \A c \in Clients :
        (DoneWith(c, "fresh_token") /\ IsGrant(resp[c]) /\ ~failed[c])
            => /\ result[c] = Returned(GrantedToken(c))
               /\ justCached.client = c =>
                     store[KeyOf(config[c])] = EntryOf(GrantedToken(c), now)

\* C6 amended: on a grant fresh_token returns the Token of the three
\* response values and the configured audience, and right after the call
\* the entry at the client's key is that token with the response's
\* expires_in as TTL when expires_in >= 1; when it is 0 the key is absent.
C6_FreshTokenCached ==
    \A c \in Clients :
        (DoneWith(c, "fresh_token") /\ IsGrant(resp[c]) /\ ~failed[c])
            => /\ result[c] = Returned(GrantedToken(c))
               /\ writes[c] = 1
               /\ justCached.client = c =>
                     store[KeyOf(config[c])] =
                        IF resp[c].expires_in.n >= 1
                        THEN EntryOf(GrantedToken(c), now)
                        ELSE Absent

C6_Witness ==
    \E c \in Clients :
        /\ DoneWith(c, "fresh_token")
        /\ IsGrant(resp[c])
        /\ justCached.client = c
        /\ resp[c].expires_in.n = 3600
        /\ HGetAll(store, KeyOf(config[c]))["expires_in"] = <<"3", "6", "0", "0">>

HasUnderscore(str) == \E i \in 1..Len(str) : str[i] = "_"

\* C7 as stated: two (client_id, audience) pairs have the same cache key
\* exactly when they are the same pair, underscores included.
C7_KeyInjectiveAnyString ==
    keyOut # NoKeys => (keyOut[1] = keyOut[2] <=> keyIn[1] = keyIn[2])

\* C7 amended: equal pairs always give equal keys, and two pairs that
\* differ give different keys when neither client_id contains an underscore
\* or neither audience does.
C7_KeyInjective ==
    keyOut # NoKeys =>
        /\ keyIn[1] = keyIn[2] => keyOut[1] = keyOut[2]
        /\ (/\ keyIn[1] # keyIn[2]
            /\ \/ \A i \in 1..2 : ~HasUnderscore(keyIn[i].client_id)
               \/ \A i \in 1..2 : ~HasUnderscore(keyIn[i].audience))
              => keyOut[1] # keyOut[2]

C7_Witness ==
    /\ keyOut # NoKeys
    /\ keyIn[1].client_id # keyIn[2].client_id
    /\ Len(keyIn[1].client_id) + Len(keyIn[1].audience)
          = Len(keyIn[2].client_id) + Len(keyIn[2].audience)
    /\ \A i \in 1..2 : ~HasUnderscore(keyIn[i].client_id)
    /\ HasUnderscore(keyIn[1].audience)
    /\ keyOut[1] # keyOut[2]

\* the step of client c that is a whole cached_token call
CachedTokenStep(c) ==
    pc[c] = "idle" /\ pc'[c] = "done" /\ op'[c] = "cached_token"

\* C8: cached_token on a key that is absent or has expired (hgetall gives
\* the empty map) returns the no-token result, not an error.
C8_MissReturnsNone ==
    [][\A c \in Clients :
          (CachedTokenStep(c) /\ ~failed'[c] /\ ~Exists(store, KeyOf(config[c])))
             => result'[c] = ReturnedNone]_vars

C8_Witness ==
    \E c \in Clients :
        /\ DoneWith(c, "cached_token")
        /\ ~failed[c]
        /\ ~Exists(store, KeyOf(config[c]))
        /\ result[c] = ReturnedNone

\* C9: a cached_token call, whatever it returns or raises, leaves every
\* key of the cache as it was: fields and expiry.
C9_ReadOnly ==
    [][\A c \in Clients : CachedTokenStep(c) => store' = store]_vars

C9_Witness ==
    \E c \in Clients :
        /\ DoneWith(c, "cached_token")
        /\ result[c].kind = "token"
        /\ Exists(store, KeyOf(config[c]))
        /\ Remaining(store, KeyOf(config[c]), now) < result[c].token.expires_in

\* C10: a success response whose body is not JSON or lacks one of the three
\* fields makes fresh_token raise a parsing error or a KeyError, with no
\* Token returned and no cache write.
C10_MalformedBodyRaises ==
    \A c \in Clients :
        (/\ DoneWith(c, "fresh_token")
         /\ Success(resp[c].status)
         /\ (~resp[c].json \/ resp[c].has # ResponseFields))
            => /\ result[c] =
                     Raised(IF resp[c].json THEN "KeyError" ELSE "JSONDecodeError")
               /\ writes[c] = 0
               /\ pipeline[c] = <<>>

C10_Witness ==
    \E c \in Clients :
        /\ DoneWith(c, "fresh_token")
        /\ Success(resp[c].status)
        /\ resp[c].json
        /\ "expires_in" \notin resp[c].has
        /\ result[c] = Raised("KeyError")
        /\ Exists(store, KeyOf(config[c]))

\* within a fresh_token call: one request sent, at most one batch committed
C11_SingleAttempt ==
    \A c \in Clients :
        op[c] = "fresh_token" => requests[c] = 1 /\ writes[c] <= 1

\* the response of a finished fresh_token call is one of the failures: none
\* came, a non-success status, or a success status with a malformed body
FailedRequest(c) ==
    \/ resp[c] = NoResponse
    \/ ~Success(resp[c].status)
    \/ ~resp[c].json
    \/ resp[c].has # ResponseFields

\* C11: a fresh_token call sends exactly one request and commits at most one
\* batch; after no response, a non-success status or a malformed body the
\* call ends with the error raised to its caller.
C11_OneRequestErrorRaised ==
    /\ C11_SingleAttempt
    /\ \A c \in Clients :
          (DoneWith(c, "fresh_token") /\ FailedRequest(c))
              => result[c].kind = "error" /\ writes[c] = 0

\* C12: a cached_token call whose hgetall fails raises the cache error; it
\* returns neither the no-token result nor a Token.
C12_CacheErrorPropagates ==
    \A c \in Clients :
        (DoneWith(c, "cached_token") /\ failed[c])
            => result[c] = Raised("RedisError")

C12_Witness ==
    \E c \in Clients :
        /\ DoneWith(c, "cached_token")
        /\ failed[c]
        /\ result[c].kind = "error"
        /\ Exists(store, KeyOf(config[c]))

\* C13: cache_token returns the token it was given, all four fields alike,
\* and so a fresh_token that returns a Token returns the one it handed to
\* cache_token.
C13_ReturnsItsArgument ==
    \A c \in Clients :
        (/\ pc[c] = "done"
         /\ op[c] \in {"cache_token", "fresh_token"}
         /\ writes[c] = 1)
            => result[c] = Returned(arg[c])

C13_Witness ==
    \E c \in Clients :
        /\ DoneWith(c, "cache_token")
        /\ writes[c] = 1
        /\ arg[c].expires_in = 0
        /\ result[c] = Returned(arg[c])
        /\ ~Exists(store, KeyOf(config[c]))

\* the step in which the batch of client c commits
CommitStep(c) == pc[c] = "execute" /\ pc'[c] = "done" /\ ~failed'[c]

\* C14: a cache_token(t) that commits right after a cache_token(t) of the
\* same client, no time or other write in between, leaves the cache as the
\* first call left it.
C14_Idempotent ==
    [][\A c \in Clients :
          (/\ CommitStep(c)
           /\ op[c] = "cache_token"
           /\ justCached = [client |-> c, token |-> arg[c]])
             => store' = store]_vars

C14_Witness ==
    \E c \in Clients :
        /\ DoneWith(c, "cache_token")
        /\ after[c] = [client |-> c, token |-> arg[c]]
        /\ arg[c].expires_in = 1
        /\ store[KeyOf(config[c])] = EntryOf(arg[c], now)

\* C15: at every moment a key that exists has a remaining TTL of at most
\* the expires_in among its fields, so no token is read after its lifetime.
C15_TTLWithinLifetime ==
    \A k \in AllKeys :
        Exists(store, k) =>
            /\ store[k].volatile
            /\ \E e \in ExpiresIn :
                  /\ store[k].fields["expires_in"] = IntToStr(e)
                  /\ Remaining(store, k, now) <= e
                  /\ Remaining(store, k, now) >= 1

C15_Witness ==
    \E c, d \in Clients :
        /\ c # d
        /\ config[c] = config[d]
        /\ DoneWith(d, "cached_token")
        /\ result[d].kind = "token"
        /\ result[d].token.access_token = AccessTokenFor(c)
        /\ result[d].token.expires_in = 3600
        /\ Exists(store, KeyOf(config[d]))
        /\ Remaining(store, KeyOf(config[d]), now) < 3600

OwnKey(c) == cache_key(config[c].client_id, config[c].audience)

\* C16 as stated: when the (client_id, audience) pairs of two clients
\* differ, no step of one changes the entry of the other.
C16_OtherPairUntouched ==
    [][\A c, d \in Clients :
          (config[c] # config[d] /\ pc'[c] # pc[c])
             => store'[OwnKey(d)] = store[OwnKey(d)]]_vars

\* C16 amended: a step of a client changes no key but that client's own, so
\* for two clients whose cache keys differ no call of one changes the entry
\* of the other, and cached_token of the other returns no token that the
\* first fetched.
C16_OnlyOwnKey ==
    [][\A c \in Clients :
          pc'[c] # pc[c] =>
             /\ \A k \in DOMAIN store :
                   k # OwnKey(c) => store'[k] = store[k]
             /\ \A d \in Clients :
                   (/\ OwnKey(d) # OwnKey(c)
                    /\ op'[c] = "cached_token"
                    /\ result'[c].kind = "token")
                      => result'[c].token.access_token # AccessTokenFor(d)]_vars

C16_Witness ==
    /\ OwnKey("c1") # OwnKey("c2")
    /\ \A c \in Clients :
          /\ Exists(store, OwnKey(c))
          /\ store[OwnKey(c)].fields["access_token"] = AccessTokenFor(c)
    /\ DoneWith("c2", "cached_token")
    /\ result["c2"].kind = "token"

\* C17: the step that ends fresh_token after a grant either commits the
\* batch and returns the Token, or fails: then the cache error is raised,
\* no Token is returned and the cache is as it was.
C17_TokenOnlyAfterCommit ==
    [][\A c \in Clients :
          (pc[c] = "execute" /\ pc'[c] = "done" /\ op[c] = "fresh_token")
             => IF failed'[c]
                THEN /\ result'[c] = Raised("RedisError")
                     /\ writes'[c] = 0
                     /\ store' = store
                ELSE /\ result'[c].kind = "token"
                     /\ writes'[c] = 1]_vars

C17_Witness ==
    \E c \in Clients :
        /\ DoneWith(c, "fresh_token")
        /\ IsGrant(resp[c])
        /\ failed[c]
        /\ result[c] = Raised("RedisError")
        /\ writes[c] = 0

\* C18: cached_token returns the expires_in that was stored with the token,
\* whatever time has passed since and whatever TTL remains.
C18_StoredLifetimeReturned ==
    [][\A c \in Clients :
          (CachedTokenStep(c) /\ ~failed'[c] /\ Exists(store, KeyOf(config[c])))
             => \E e \in ExpiresIn :
                   /\ store[KeyOf(config[c])].fields["expires_in"] = IntToStr(e)
                   /\ result'[c].kind = "token"
                   /\ result'[c].token.expires_in = e]_vars

C18_Witness ==
    \E c \in Clients :
        /\ DoneWith(c, "cached_token")
        /\ result[c].kind = "token"
        /\ result[c].token.expires_in = 3600
        /\ now >= 1
        /\ lastWrite[KeyOf(config[c])].deadline = 3600
        /\ Remaining(store, KeyOf(config[c]), now) = 3600 - now

====
